---- MODULE Spec2Model ----
(***************************************************************************)
(* Session lifecycle management with signed tokens (my_rust_cms backend).  *)
(*                                                                         *)
(*   backend/src/services/session_signing.rs   SessionSigner               *)
(*   backend/src/services/session_manager.rs   SessionManager              *)
(*   backend/src/controllers/auth.rs           logout                      *)
(*                                                                         *)
(* A Rust string is a sequence of one-character strings; a secret is the   *)
(* sequence of its bytes.  Option<T> is a sequence of length 0 (None) or 1 *)
(* (Some).  Time is counted in minutes.                                    *)
(***************************************************************************)
EXTENDS Integers, Sequences, FiniteSets, TLC

VARIABLES
    probe,      \* SessionSigner harness: secrets, identifier, token under test, results
    users,      \* ids of the rows of the users table
    cfg,        \* SessionConfig plus the session secret, fixed at construction
    sessions,   \* rows of the sessions table
    next_id,    \* next serial id of the sessions table
    now,        \* the wall clock, Utc::now(), in minutes
    issued,     \* history: what create_session returned, in call order
    last,       \* the last call made and what it returned
    clean,      \* history: per user, only create_session touched the user's sessions
                \*          and none of them has been expired so far
    sched,      \* the background cleanup task: where it is in its loop
    flight      \* calls in progress, each between two of its database statements

vars == <<probe, users, cfg, sessions, next_id, now, issued, last, clean, sched, flight>>

(***************************************************************************)
(* Bounds of the model.                                                    *)
(***************************************************************************)
MaxSecretLen == 2   \* secrets have at most this many bytes
MaxIdLen == 1       \* identifiers under test have at most this many characters
MaxStrLen == 3      \* arbitrary token strings have at most this many characters
ExtraCreates == 1   \* a run inserts at most max_sessions_per_user + this many rows
MaxTime == 60       \* the clock stops advancing at this minute
UsizeBits == 16     \* usize is narrowed to this many bits
MaxRaceCreates == 5 \* create_session calls started while calls run concurrently

(***************************************************************************)
(* Strings.                                                                *)
(***************************************************************************)
None == <<>>
Some(x) == <<x>>

\* All strings over the character set cs of length lo..hi.
StringsOver(cs, lo, hi) == UNION {[1..n -> cs] : n \in lo..hi}

\* str::contains(c)
Contains(s, c) == \E i \in 1..Len(s) : s[i] = c

\* str::split(c).collect(): the pieces between the separators; a string with n
\* separators has n + 1 pieces, the empty string has one (empty) piece.
RECURSIVE SplitFrom(_, _, _, _)
SplitFrom(s, c, i, piece) ==
    IF i > Len(s) THEN <<piece>>
    ELSE IF s[i] = c THEN <<piece>> \o SplitFrom(s, c, i + 1, <<>>)
    ELSE SplitFrom(s, c, i + 1, Append(piece, s[i]))

Split(s, c) == SplitFrom(s, c, 1, <<>>)

(***************************************************************************)
(* The secrets and identifiers of the model.                               *)
(***************************************************************************)
\* SessionSigner::new(secret): secret.as_bytes(); 0 is the NUL byte, 115 is 's'.
SecretBytes == {0, 115}
Secrets == StringsOver(SecretBytes, 0, MaxSecretLen)

\* Uuid::to_string(): hexadecimal digits (and hyphens), never a '.'.
IdChars == {"a", "b"}
Ids == StringsOver(IdChars, 1, MaxIdLen)

\* Uuid::new_v4(): an identifier never produced before.  Identifiers are opaque,
\* so the n-th one produced is taken to be the n-th of a fixed list.
UuidPool == <<<<"a">>, <<"b">>, <<"a", "a">>, <<"a", "b">>, <<"b", "a">>, <<"b", "b">>>>

(***************************************************************************)
(* HMAC-SHA256 and base64.  SHA-256 is idealised: the MAC is a fixed-width *)
(* value that is equal for two inputs exactly when the HMAC key blocks and *)
(* the messages are equal.  The key block is computed as HMAC computes it  *)
(* for a key of at most one block: the key bytes followed by zero bytes up *)
(* to the block size (a longer key is hashed first; no secret of the model *)
(* is that long).                                                          *)
(***************************************************************************)
HmacBlockSize == 64

\* base64::engine::general_purpose::URL_SAFE_NO_PAD: the URL-safe alphabet.
Base64UrlChars ==
    << "A","B","C","D","E","F","G","H","I","J","K","L","M","N","O","P",
       "Q","R","S","T","U","V","W","X","Y","Z","a","b","c","d","e","f",
       "g","h","i","j","k","l","m","n","o","p","q","r","s","t","u","v",
       "w","x","y","z","0","1","2","3","4","5","6","7","8","9","-","_" >>

\* Hmac::new_from_slice(&self.secret): the key padded with zero bytes to one block.
HmacKeyBlock(secret) ==
    secret \o [i \in 1..(HmacBlockSize - Len(secret)) |-> 0]

RECURSIVE BytesIndexFrom(_, _)
BytesIndexFrom(bytes, i) ==
    IF i > Len(bytes) THEN 0 ELSE bytes[i] + 256 * BytesIndexFrom(bytes, i + 1)

BytesIndex(bytes) == BytesIndexFrom(bytes, 1)

CharCode(c) == CHOOSE k \in 1..Len(Base64UrlChars) : Base64UrlChars[k] = c

RECURSIVE CharsIndexFrom(_, _)
CharsIndexFrom(chars, i) ==
    IF i > Len(chars) THEN 0
    ELSE CharCode(chars[i]) + 65 * CharsIndexFrom(chars, i + 1)

CharsIndex(chars) == CharsIndexFrom(chars, 1)

RECURSIVE Pow64(_)
Pow64(n) == IF n = 0 THEN 1 ELSE 64 * Pow64(n - 1)

\* n as `width` digits in 0..63, least significant first.
Sextets(n, width) == [i \in 1..width |-> (n \div Pow64(i - 1)) % 64]

\* mac.update(token.as_bytes()); mac.finalize(): the idealised MAC, as sextets.
HmacSha256(secret, msg) ==
    Sextets(BytesIndex(HmacKeyBlock(secret)), 2 * MaxSecretLen)
        \o Sextets(CharsIndex(msg), MaxStrLen + 1)

\* URL_SAFE_NO_PAD.encode(mac)
Base64UrlEncode(mac) == [i \in 1..Len(mac) |-> Base64UrlChars[mac[i] + 1]]

\* The signatures of the model's secrets and identifiers, computed once.
SignatureTable ==
    [p \in Secrets \X (Ids \cup {UuidPool[i] : i \in DOMAIN UuidPool}) |->
        Base64UrlEncode(HmacSha256(p[1], p[2]))] @@ <<>>

\* SessionSigner::sign_token; Hmac accepts a key of any length, so it is always Ok.
sign_token(secret, token) ==
    IF <<secret, token>> \in DOMAIN SignatureTable
    THEN SignatureTable[<<secret, token>>]
    ELSE Base64UrlEncode(HmacSha256(secret, token))

\* constant_time_eq: `result` is 0 as long as no pair of bytes differs.
RECURSIVE XorFold(_, _, _, _)
XorFold(a, b, i, result) ==
    IF i > Len(a) THEN result
    ELSE XorFold(a, b, i + 1, IF a[i] = b[i] THEN result ELSE 1)

\* Mutant: only the lengths are compared.
constant_time_eq_LengthOnly(a, b) == Len(a) = Len(b)

constant_time_eq(a, b) ==
    IF Len(a) # Len(b) THEN FALSE
    ELSE XorFold(a, b, 1, 0) = 0

\* Mutant: the signature part is returned in place of the identifier part.
verify_signed_token_WrongPart(secret, signed_token) ==
    LET parts == Split(signed_token, ".") IN
    IF Len(parts) # 2 THEN None
    ELSE IF constant_time_eq(sign_token(secret, parts[1]), parts[2])
         THEN Some(parts[2])
         ELSE None

\* SessionSigner::verify_signed_token
verify_signed_token(secret, signed_token) ==
    LET parts == Split(signed_token, ".") IN
    IF Len(parts) # 2 THEN None
    ELSE LET uuid_token == parts[1]
             provided_signature == parts[2]
             expected_signature == sign_token(secret, uuid_token)
         IN IF constant_time_eq(expected_signature, provided_signature)
            THEN Some(uuid_token)
            ELSE None

\* Mutant: any token with a '.' counts as signed.
is_signed_token_AnyDot(token) == Contains(token, ".")

\* SessionSigner::is_signed_token
is_signed_token(token) ==
    Contains(token, ".") /\ Len(Split(token, ".")) = 2

\* SessionSigner::create_signed_token: format!("{}.{}", uuid_token, signature);
\* uuid_token is what Uuid::new_v4().to_string() produced.
create_signed_token(secret, uuid_token) ==
    uuid_token \o <<".">> \o sign_token(secret, uuid_token)

\* SessionSigner::create_signed_token_from_uuid, which create_session calls:
\* the identifier, a '.', and the identifier's signature.
create_signed_token_from_uuid(secret, uuid_token) ==
    uuid_token \o <<".">> \o sign_token(secret, uuid_token)

(***************************************************************************)
(* SessionSigner on its own: the inputs are drawn at the start, the        *)
(* signer's functions are applied to them.                                 *)
(***************************************************************************)
ArbitraryStrings == StringsOver({"a", "."}, 0, MaxStrLen)

\* Number of '.' characters of a string.
DotCount(s) == Cardinality({i \in 1..Len(s) : s[i] = "."})

\* s with its last character replaced by another character of the alphabet.
FlipLast(s) ==
    [s EXCEPT ![Len(s)] = IF s[Len(s)] = "A" THEN "B" ELSE "A"]

\* Signature parts somebody may present with identifier id to a signer whose
\* secret is s2: the identifier's signature under any secret, the expected
\* signature with one character changed or cut short, and text that is no
\* signature.
PresentedSignatures(id, s2) ==
    {sign_token(s, id) : s \in Secrets}
        \cup {FlipLast(sign_token(s2, id)),
              SubSeq(sign_token(s2, id), 1, 2),
              <<>>,
              <<"f", "a", "k", "e">>}

ProbeIdle ==
    [s1 |-> <<>>, s2 |-> <<>>, id |-> <<"a">>, token |-> <<>>,
     origin |-> "arbitrary", sig |-> None, op |-> "init",
     verified |-> None, looks_signed |-> FALSE]

(***************************************************************************)
(* The persistence port: users and the sessions table (models::User,       *)
(* models::Session).  A row is [id, user_id, session_token, expires_at];   *)
(* ids are serial, so a larger id is a later insertion.                    *)
(***************************************************************************)
UserIds == {1, 2, 3}

\* User::find_by_id
User_find_by_id(user_id) ==
    IF user_id \in users THEN Some(user_id) ELSE None

UserRows(rows, user_id) == {r \in rows : r.user_id = user_id}

\* Session::count_active_sessions_for_user: the user's rows not yet expired.
Session_count_active_sessions_for_user(rows, t, user_id) ==
    Cardinality({r \in UserRows(rows, user_id) : r.expires_at > t})

\* Session::delete_old_sessions_for_user: keeps the user's `keep` newest rows and
\* deletes the user's older ones.
Session_delete_old_sessions_for_user(rows, user_id, keep) ==
    {r \in rows :
        r.user_id = user_id =>
            Cardinality({q \in UserRows(rows, user_id) : q.id > r.id}) < keep}

\* Session::create
Session_create(rows, id, new_session) ==
    rows \cup {[id |-> id,
                user_id |-> new_session.user_id,
                session_token |-> new_session.session_token,
                expires_at |-> new_session.expires_at]}

\* Session::find_by_token
Session_find_by_token(rows, token) ==
    IF \E r \in rows : r.session_token = token
    THEN Some(CHOOSE r \in rows : r.session_token = token)
    ELSE None

\* Session::delete
Session_delete(rows, id) == {r \in rows : r.id # id}

\* Session::refresh_expiration: the rows after the update.
Session_refresh_expiration(rows, id, new_expires_at) ==
    {IF r.id = id THEN [r EXCEPT !.expires_at = new_expires_at] ELSE r : r \in rows}

\* Session::delete_by_token: the rows after the delete.
Session_delete_by_token(rows, token) ==
    {r \in rows : r.session_token # token}

\* Session::delete_user_sessions: the rows after the delete.
Session_delete_user_sessions(rows, user_id) ==
    {r \in rows : r.user_id # user_id}

\* Session::cleanup_and_get_stats: deletes the rows whose expiry is at or before
\* t; gives (deleted, total_before, active_remaining) and the rows left.
Session_cleanup_and_get_stats(rows, t) ==
    LET remaining == {r \in rows : r.expires_at > t}
    IN [rows |-> remaining,
        deleted |-> Cardinality(rows) - Cardinality(remaining),
        total_before |-> Cardinality(rows),
        active_remaining |-> Cardinality(remaining)]

(***************************************************************************)
(* SessionManager.  The configuration and the signer are fixed when the    *)
(* manager is constructed.                                                 *)
(***************************************************************************)
SessionSecret == <<115>>

\* SessionConfig values with a limit of one session per user: lifetimes of 0 and
\* 1 hour, refresh thresholds of 60 and 80 minutes (one within the lifetime, one
\* beyond it).
Configs ==
    {c \in [session_duration_hours : {0, 1},
            max_sessions_per_user : {1},
            enable_session_refresh : BOOLEAN,
            refresh_threshold_minutes : {60, 80},
            enable_token_signing : BOOLEAN] :
        \/ c.session_duration_hours = 1 /\ c.enable_session_refresh
        \/ c.refresh_threshold_minutes = 60}

\* The SessionConfig of main, with the lifetime and the threshold scaled to the
\* model's clock (1 hour and 60 minutes for 24 hours and 30 minutes).
MainConfig ==
    [session_duration_hours |-> 1,
     max_sessions_per_user |-> 3,
     enable_session_refresh |-> TRUE,
     refresh_threshold_minutes |-> 60,
     enable_token_signing |-> TRUE]

\* A configuration together with the users table it runs against.
Deployments ==
    {<<c, {1, 2}>> : c \in Configs} \cup {<<MainConfig, {1}>>}

\* SessionManager::new
new(config) == [config |-> config, signer |-> None]

\* SessionConfig::default(), with the lifetime and the threshold scaled to the
\* model's clock (1 hour and 60 minutes for 24 hours and 60 minutes).
DefaultConfig ==
    [session_duration_hours |-> 1,
     max_sessions_per_user |-> 5,
     enable_session_refresh |-> TRUE,
     refresh_threshold_minutes |-> 60,
     enable_token_signing |-> TRUE]

\* SessionManager::new_with_defaults
new_with_defaults == new(DefaultConfig)

\* SessionManager::new_with_signing
new_with_signing(config, session_secret) ==
    [config |-> config,
     signer |-> IF config.enable_token_signing THEN Some(session_secret) ELSE None]

\* Duration::hours(h), Duration::minutes(m), in minutes.
Hours(h) == 60 * h
Minutes(m) == m

Ok(rows, session) == [result |-> "Ok", rows |-> rows, session |-> Some(session)]
Err(kind, rows) == [result |-> kind, rows |-> rows, session |-> None]

\* usize arithmetic.  The keep count is only compared with numbers of rows, all
\* far below 2^UsizeBits.
UsizeModulus == 2 ^ UsizeBits

\* a - b on usize overflows (panics when the build has overflow checks).
UsizeSubOverflows(a, b) == a < b

\* a - b on usize as a build without overflow checks computes it.
UsizeWrappingSub(a, b) == (a - b + UsizeModulus) % UsizeModulus

\* Mutant: old sessions are removed only once the user is over the limit.
EvictOverLimit_StrictlyOver(rows, t, user_id) ==
    IF Session_count_active_sessions_for_user(rows, t, user_id)
           > cfg.config.max_sessions_per_user
    THEN Session_delete_old_sessions_for_user(
             rows, user_id, cfg.config.max_sessions_per_user - 1)
    ELSE rows

\* Mutant: the user's newest max_sessions_per_user sessions are kept, leaving no
\* room for the new one.
EvictOverLimit_KeepsLimit(rows, t, user_id) ==
    IF Session_count_active_sessions_for_user(rows, t, user_id)
           >= cfg.config.max_sessions_per_user
    THEN Session_delete_old_sessions_for_user(
             rows, user_id, cfg.config.max_sessions_per_user)
    ELSE rows

\* create_session, lines 89-95: make room when the user is at the limit.
EvictOverLimit(rows, t, user_id) ==
    LET current_session_count ==
            Session_count_active_sessions_for_user(rows, t, user_id)
    IN IF current_session_count >= cfg.config.max_sessions_per_user
       THEN Session_delete_old_sessions_for_user(
                rows, user_id, UsizeWrappingSub(cfg.config.max_sessions_per_user, 1))
       ELSE rows

\* Mutant: the returned token is signed whether or not the manager has a signer.
ReturnedToken_AlwaysSigns(uuid_token) ==
    create_signed_token_from_uuid(SessionSecret, uuid_token)

\* create_session, lines 110-115: what the caller gets as session_token.
ReturnedToken(uuid_token) ==
    IF cfg.signer # None
    THEN create_signed_token_from_uuid(cfg.signer[1], uuid_token)
    ELSE uuid_token

\* Mutant: the row is inserted before the user is looked up.
create_session_InsertsBeforeUserCheck(rows, t, id, user_id, uuid_token) ==
    LET kept == EvictOverLimit(rows, t, user_id)
        expires_at == t + Hours(cfg.config.session_duration_hours)
        new_session == [user_id |-> user_id,
                        session_token |-> uuid_token,
                        expires_at |-> expires_at]
        inserted == Session_create(kept, id, new_session)
        session == [id |-> id, user_id |-> user_id,
                    session_token |-> ReturnedToken(uuid_token),
                    expires_at |-> expires_at]
    IN IF User_find_by_id(user_id) = None THEN Err("NotFound", inserted)
       ELSE Ok(inserted, session)

\* Mutant: the row stores the token handed to the caller.
create_session_StoresReturnedToken(rows, t, id, user_id, uuid_token) ==
    IF User_find_by_id(user_id) = None THEN Err("NotFound", rows)
    ELSE LET kept == EvictOverLimit(rows, t, user_id)
             expires_at == t + Hours(cfg.config.session_duration_hours)
             new_session == [user_id |-> user_id,
                             session_token |-> ReturnedToken(uuid_token),
                             expires_at |-> expires_at]
             inserted == Session_create(kept, id, new_session)
             session == [id |-> id, user_id |-> user_id,
                         session_token |-> ReturnedToken(uuid_token),
                         expires_at |-> expires_at]
         IN Ok(inserted, session)

\* SessionManager::create_session; uuid_token is what Uuid::new_v4() produced,
\* id the serial id the insert assigns.
create_session(rows, t, id, user_id, uuid_token) ==
    IF User_find_by_id(user_id) = None THEN Err("NotFound", rows)
    ELSE LET kept == EvictOverLimit(rows, t, user_id)
             expires_at == t + Hours(cfg.config.session_duration_hours)
             new_session == [user_id |-> user_id,
                             session_token |-> uuid_token,
                             expires_at |-> expires_at]
             inserted == Session_create(kept, id, new_session)
             session == [id |-> id, user_id |-> user_id,
                         session_token |-> ReturnedToken(uuid_token),
                         expires_at |-> expires_at]
         IN Ok(inserted, session)

\* The task running the call panicked; the store is as it was.
Panic(rows) == [result |-> "Panic", rows |-> rows, session |-> None]

\* create_session as built: with overflow checks (the dev profile) the keep count
\* max_sessions_per_user - 1 of line 93 panics when it overflows; without them
\* (the release profile) it wraps.
create_session_in_build(rows, t, id, user_id, uuid_token, overflow_checks) ==
    IF /\ User_find_by_id(user_id) # None
       /\ Session_count_active_sessions_for_user(rows, t, user_id)
              >= cfg.config.max_sessions_per_user
       /\ UsizeSubOverflows(cfg.config.max_sessions_per_user, 1)
       /\ overflow_checks
    THEN Panic(rows)
    ELSE create_session(rows, t, id, user_id, uuid_token)

\* Mutant: a token without a signature is refused when the manager has a signer.
LookupToken_SignedOnly(token) ==
    IF cfg.signer # None
    THEN IF is_signed_token(token)
         THEN verify_signed_token(cfg.signer[1], token)
         ELSE None
    ELSE Some(token)

\* Mutant: when the signature does not verify, the identifier part is looked up
\* all the same.
LookupToken_TrustsIdentifier(token) ==
    IF cfg.signer # None
    THEN IF is_signed_token(token)
         THEN Some(Split(token, ".")[1])
         ELSE Some(token)
    ELSE Some(token)

\* validate_session, lines 125-139: the token to look up, None for a signed
\* token whose signature does not verify.
LookupToken(token) ==
    IF cfg.signer # None
    THEN IF is_signed_token(token)
         THEN verify_signed_token(cfg.signer[1], token)
         ELSE Some(token)
    ELSE Some(token)

\* validate_session, line 150: `let _ = Session::delete(..)`.  The delete can fail
\* like any statement against the store; its error is discarded, so the caller
\* cannot tell whether the row went away.
DeleteIgnoringError(rows, id, delete_ok) ==
    IF delete_ok THEN Session_delete(rows, id) ELSE rows

\* Mutant: sessions outside the refresh window are the ones refreshed.
CheckExpiryAndRefresh_InvertedWindow(rows, t, session, delete_ok) ==
    IF session.expires_at <= t
    THEN Err("ExpiredToken", DeleteIgnoringError(rows, session.id, delete_ok))
    ELSE IF /\ cfg.config.enable_session_refresh
            /\ session.expires_at - t >= Minutes(cfg.config.refresh_threshold_minutes)
         THEN LET new_expires_at == t + Hours(cfg.config.session_duration_hours)
              IN Ok(Session_refresh_expiration(rows, session.id, new_expires_at),
                    [session EXCEPT !.expires_at = new_expires_at])
         ELSE Ok(rows, session)

\* Mutant: the refresh check comes before the expiry check.
CheckExpiryAndRefresh_RefreshFirst(rows, t, session, delete_ok) ==
    IF /\ cfg.config.enable_session_refresh
       /\ session.expires_at - t < Minutes(cfg.config.refresh_threshold_minutes)
    THEN LET new_expires_at == t + Hours(cfg.config.session_duration_hours)
         IN Ok(Session_refresh_expiration(rows, session.id, new_expires_at),
               [session EXCEPT !.expires_at = new_expires_at])
    ELSE IF session.expires_at <= t
         THEN Err("ExpiredToken", DeleteIgnoringError(rows, session.id, delete_ok))
         ELSE Ok(rows, session)

\* validate_session, lines 144-167: expiry, then refresh, for the row found.
\* Every row create_session inserts has Some(expires_at).
CheckExpiryAndRefresh(rows, t, session, delete_ok) ==
    IF session.expires_at <= t
    THEN Err("ExpiredToken", DeleteIgnoringError(rows, session.id, delete_ok))
    ELSE IF /\ cfg.config.enable_session_refresh
            /\ session.expires_at - t < Minutes(cfg.config.refresh_threshold_minutes)
         THEN LET new_expires_at == t + Hours(cfg.config.session_duration_hours)
              IN Ok(Session_refresh_expiration(rows, session.id, new_expires_at),
                    [session EXCEPT !.expires_at = new_expires_at])
         ELSE Ok(rows, session)

\* Mutant: the token is only checked, whichever row comes first is returned.
validate_session_AnyRow(rows, t, token, delete_ok) ==
    LET lookup_token == LookupToken(token) IN
    IF lookup_token = None THEN Err("InvalidToken", rows)
    ELSE IF Session_find_by_token(rows, lookup_token[1]) = None
         THEN Err("InvalidToken", rows)
         ELSE CheckExpiryAndRefresh(
                  rows, t, CHOOSE r \in rows : \A q \in rows : r.id <= q.id, delete_ok)

\* SessionManager::validate_session
validate_session(rows, t, token, delete_ok) ==
    LET lookup_token == LookupToken(token) IN
    IF lookup_token = None THEN Err("InvalidToken", rows)
    ELSE LET found == Session_find_by_token(rows, lookup_token[1]) IN
         IF found = None THEN Err("InvalidToken", rows)
         ELSE CheckExpiryAndRefresh(rows, t, found[1], delete_ok)

\* Mutant: the number of rows deleted is not looked at.
logout_session_IgnoresCount(rows, token) ==
    [result |-> "Ok", rows |-> Session_delete_by_token(rows, token), session |-> None]

\* SessionManager::logout_session
logout_session(rows, token) ==
    LET remaining == Session_delete_by_token(rows, token)
        deleted == Cardinality(rows) - Cardinality(remaining)
    IN IF deleted = 0 THEN Err("NotFound", rows)
       ELSE [result |-> "Ok", rows |-> remaining, session |-> None]

\* What the operations below return: result, the rows afterwards, and the count
\* or SessionStats of the Ok case.
OkValue(rows, value) == [result |-> "Ok", rows |-> rows, value |-> value]

SessionStats(total_sessions, active_sessions, expired_cleaned, last_cleanup) ==
    [total_sessions |-> total_sessions,
     active_sessions |-> active_sessions,
     expired_cleaned |-> expired_cleaned,
     last_cleanup |-> last_cleanup]

\* Mutant: the user's newest session survives.
logout_all_user_sessions_KeepsNewest(rows, user_id) ==
    LET remaining == Session_delete_old_sessions_for_user(rows, user_id, 1)
    IN OkValue(remaining, Cardinality(rows) - Cardinality(remaining))

\* Mutant: deleting nothing is reported as an error, as logout_session does.
logout_all_user_sessions_ErrOnZero(rows, user_id) ==
    LET remaining == Session_delete_user_sessions(rows, user_id)
        deleted == Cardinality(rows) - Cardinality(remaining)
    IN IF deleted = 0
       THEN [result |-> "NotFound", rows |-> rows, value |-> 0]
       ELSE OkValue(remaining, deleted)

\* SessionManager::logout_all_user_sessions
logout_all_user_sessions(rows, user_id) ==
    LET remaining == Session_delete_user_sessions(rows, user_id)
        deleted == Cardinality(rows) - Cardinality(remaining)
    IN OkValue(remaining, deleted)

\* Mutant: the counts are put in the wrong fields.
cleanup_expired_sessions_SwapsCounts(rows, t) ==
    LET swept == Session_cleanup_and_get_stats(rows, t)
    IN OkValue(swept.rows,
               SessionStats(swept.active_remaining, swept.total_before, swept.deleted, t))

\* SessionManager::cleanup_expired_sessions
cleanup_expired_sessions(rows, t) ==
    LET swept == Session_cleanup_and_get_stats(rows, t)
        stats == SessionStats(swept.total_before, swept.active_remaining, swept.deleted, t)
    IN OkValue(swept.rows, stats)

\* Mutant: a session expiring at this very moment is counted as active.
get_session_statistics_CountsExpiring(rows, t) ==
    LET total_sessions == Cardinality(rows)
        active_sessions == Cardinality({r \in rows : r.expires_at >= t})
    IN OkValue(rows, SessionStats(total_sessions, active_sessions, 0, t))

\* SessionManager::get_session_statistics: count of sessions, and count of
\* sessions filtered by expires_at.gt(now).
get_session_statistics(rows, t) ==
    LET total_sessions == Cardinality(rows)
        active_sessions == Cardinality({r \in rows : r.expires_at > t})
    IN OkValue(rows, SessionStats(total_sessions, active_sessions, 0, t))

\* Mutant: the update has no user_id filter.
force_expire_user_sessions_AllUsers(rows, t, user_id) ==
    OkValue({[r EXCEPT !.expires_at = t] : r \in rows},
            Cardinality(UserRows(rows, user_id)))

\* SessionManager::force_expire_user_sessions: update sessions set expires_at =
\* now where user_id = user_id; the number of rows updated is returned.
force_expire_user_sessions(rows, t, user_id) ==
    LET updated == UserRows(rows, user_id)
    IN OkValue({IF r.user_id = user_id THEN [r EXCEPT !.expires_at = t] ELSE r : r \in rows},
               Cardinality(updated))

(***************************************************************************)
(* The system: one SessionManager, its callers and the clock.              *)
(***************************************************************************)
\* The cleanup task before start_background_cleanup has spawned it.
SchedulerOff ==
    [pc |-> "off", conn |-> 0, sleep_secs |-> 0, outcome |-> "none"]

\* No call is between two of its statements.
NoFlights == <<>>

NoCall ==
    [op |-> "none", user_id |-> 0, token |-> <<>>, result |-> "none", session |-> None]

Call(op, user_id, token, out) ==
    [op |-> op, user_id |-> user_id, token |-> token,
     result |-> out.result, session |-> out.session]

FreshUuids ==
    IF Len(issued) < Len(UuidPool) THEN {UuidPool[Len(issued) + 1]} ELSE {}

\* A secret that is not the manager's.
OtherSecret == <<115, 115>>

\* The sessions callers present tokens for: of each user, the first and the
\* latest session issued.
Presented ==
    {i \in DOMAIN issued :
        \/ \A j \in 1..(i - 1) : issued[j].user_id # issued[i].user_id
        \/ \A j \in (i + 1)..Len(issued) : issued[j].user_id # issued[i].user_id}

\* A token that was never issued.
UnknownToken == <<"b", "b", "b">>

\* What a caller may present to validate_session: for a session, the token as
\* returned, the bare identifier, and the identifier signed with another secret.
ValidateTokens ==
    UNION {{issued[i].token, issued[i].uuid, issued[i].forged} : i \in Presented}
        \cup {UnknownToken}

\* What a caller may present to logout.
LogoutTokens ==
    UNION {{issued[i].token, issued[i].uuid} : i \in Presented} \cup {UnknownToken}

OnlyCreatesSoFar(u, rows_before, rows_after) ==
    /\ clean[u]
    /\ {r.id : r \in UserRows(rows_before, u)} \subseteq {r.id : r \in UserRows(rows_after, u)}

Init ==
    /\ probe = ProbeIdle
    /\ \E d \in Deployments :
          /\ cfg = new_with_signing(d[1], SessionSecret)
          /\ users = d[2]
    /\ sessions = {}
    /\ next_id = 1
    /\ now = 0
    /\ issued = <<>>
    /\ last = NoCall
    /\ clean = [u \in users |-> TRUE]
    /\ sched = SchedulerOff
    /\ flight = NoFlights

\* A caller logs in: create_session(user_id).
CreateSession(user_id, uuid_token) ==
    /\ next_id <= cfg.config.max_sessions_per_user + ExtraCreates
    /\ LET out == create_session(sessions, now, next_id, user_id, uuid_token) IN
       /\ sessions' = out.rows
       /\ last' = Call("create_session", user_id, <<>>, out)
       /\ IF out.result = "Ok"
          THEN /\ next_id' = next_id + 1
               /\ issued' = Append(issued, [user_id |-> user_id,
                                            uuid |-> uuid_token,
                                            token |-> out.session[1].session_token,
                                            expires_at |-> out.session[1].expires_at,
                                            forged |-> create_signed_token_from_uuid(
                                                           OtherSecret, uuid_token)])
               /\ clean' = [clean EXCEPT ![user_id] =
                               /\ clean[user_id]
                               /\ \A r \in UserRows(out.rows, user_id) : r.expires_at > now]
          ELSE UNCHANGED <<next_id, issued, clean>>
    /\ UNCHANGED <<probe, users, cfg, now, sched, flight>>

\* A caller presents a bearer token: validate_session(token).  delete_ok tells
\* whether the store carries out the delete of an expired row.
ValidateSession(token, delete_ok) ==
    /\ LET out == validate_session(sessions, now, token, delete_ok) IN
       /\ sessions' = out.rows
       /\ last' = Call("validate_session", 0, token, out)
       /\ clean' = [u \in users |-> OnlyCreatesSoFar(u, sessions, out.rows)]
    /\ UNCHANGED <<probe, users, cfg, next_id, now, issued, sched, flight>>

\* controllers::auth::logout: logout_session(the bearer token of the request).
LogoutSession(token) ==
    /\ LET out == logout_session(sessions, token) IN
       /\ sessions' = out.rows
       /\ last' = Call("logout_session", 0, token, out)
       /\ clean' = [u \in users |-> OnlyCreatesSoFar(u, sessions, out.rows)]
    /\ UNCHANGED <<probe, users, cfg, next_id, now, issued, sched, flight>>

\* Time passes.
Tick ==
    /\ now < MaxTime
    /\ now' = now + 30
    /\ last' = [NoCall EXCEPT !.op = "tick"]
    /\ clean' = [u \in users |->
                    clean[u] /\ \A r \in UserRows(sessions, u) : r.expires_at > now']
    /\ UNCHANGED <<probe, users, cfg, sessions, next_id, issued, sched, flight>>

Next ==
    \/ \E user_id \in UserIds, uuid_token \in FreshUuids : CreateSession(user_id, uuid_token)
    \/ \E token \in ValidateTokens, delete_ok \in BOOLEAN : ValidateSession(token, delete_ok)
    \/ \E token \in LogoutTokens : LogoutSession(token)
    \/ Tick

Spec == Init /\ [][Next]_vars

(***************************************************************************)
(* The manager with its administrative operations: sessions are created,   *)
(* validated, logged out per user, force-expired, swept and counted.       *)
(***************************************************************************)
AdminCall(op, user_id, out) ==
    [op |-> op, user_id |-> user_id, token |-> <<>>,
     result |-> out.result, session |-> None, value |-> out.value]

\* Only create_session has touched u's rows and all of them are unexpired.
StillClean(u, rows_before, rows_after) ==
    /\ OnlyCreatesSoFar(u, rows_before, rows_after)
    /\ \A r \in UserRows(rows_after, u) : r.expires_at > now

LogoutAllUserSessions(user_id) ==
    /\ LET out == logout_all_user_sessions(sessions, user_id) IN
       /\ sessions' = out.rows
       /\ last' = AdminCall("logout_all_user_sessions", user_id, out)
       /\ clean' = [u \in users |-> StillClean(u, sessions, out.rows)]
    /\ UNCHANGED <<probe, users, cfg, next_id, now, issued, sched, flight>>

ForceExpireUserSessions(user_id) ==
    /\ LET out == force_expire_user_sessions(sessions, now, user_id) IN
       /\ sessions' = out.rows
       /\ last' = AdminCall("force_expire_user_sessions", user_id, out)
       /\ clean' = [u \in users |-> StillClean(u, sessions, out.rows)]
    /\ UNCHANGED <<probe, users, cfg, next_id, now, issued, sched, flight>>

\* The background task's sweep, or a manual one.
CleanupExpiredSessions ==
    /\ LET out == cleanup_expired_sessions(sessions, now) IN
       /\ sessions' = out.rows
       /\ last' = AdminCall("cleanup_expired_sessions", 0, out)
       /\ clean' = [u \in users |-> StillClean(u, sessions, out.rows)]
    /\ UNCHANGED <<probe, users, cfg, next_id, now, issued, sched, flight>>

GetSessionStatistics ==
    /\ LET out == get_session_statistics(sessions, now) IN
       /\ sessions' = out.rows
       /\ last' = AdminCall("get_session_statistics", 0, out)
       /\ clean' = [u \in users |-> StillClean(u, sessions, out.rows)]
    /\ UNCHANGED <<probe, users, cfg, next_id, now, issued, sched, flight>>

NextAdmin ==
    \/ \E user_id \in UserIds, uuid_token \in FreshUuids : CreateSession(user_id, uuid_token)
    \/ \E token \in ValidateTokens, delete_ok \in BOOLEAN : ValidateSession(token, delete_ok)
    \/ \E user_id \in UserIds : LogoutAllUserSessions(user_id)
    \/ \E user_id \in UserIds : ForceExpireUserSessions(user_id)
    \/ CleanupExpiredSessions
    \/ GetSessionStatistics
    \/ Tick

SpecAdmin == Init /\ [][NextAdmin]_vars

(***************************************************************************)
(* The manager as constructed in each of the three ways, over              *)
(* configurations that include a limit of 0 sessions, and as built with    *)
(* and without overflow checks.                                            *)
(***************************************************************************)
ConstructConfigs ==
    [session_duration_hours : {1},
     max_sessions_per_user : {0, 1},
     enable_session_refresh : {TRUE},
     refresh_threshold_minutes : {60},
     enable_token_signing : BOOLEAN]

Constructions ==
    {new(c) : c \in ConstructConfigs}
        \cup {new_with_signing(c, SessionSecret) : c \in ConstructConfigs}
        \cup {new_with_defaults}

InitConstruct ==
    /\ probe = ProbeIdle
    /\ cfg \in Constructions
    /\ users = {1}
    /\ sessions = {}
    /\ next_id = 1
    /\ now = 0
    /\ issued = <<>>
    /\ last = NoCall
    /\ clean = [u \in users |-> TRUE]
    /\ sched = SchedulerOff
    /\ flight = NoFlights

\* A caller logs in; the process was built with or without overflow checks.
CreateSessionInBuild(user_id, uuid_token, overflow_checks) ==
    /\ next_id <= cfg.config.max_sessions_per_user + ExtraCreates
    /\ LET out == create_session_in_build(sessions, now, next_id, user_id, uuid_token,
                                          overflow_checks) IN
       /\ sessions' = out.rows
       /\ last' = Call("create_session", user_id, <<>>, out)
       /\ IF out.result = "Ok"
          THEN /\ next_id' = next_id + 1
               /\ issued' = Append(issued, [user_id |-> user_id,
                                            uuid |-> uuid_token,
                                            token |-> out.session[1].session_token,
                                            expires_at |-> out.session[1].expires_at,
                                            forged |-> create_signed_token_from_uuid(
                                                           OtherSecret, uuid_token)])
               /\ clean' = [clean EXCEPT ![user_id] =
                               /\ clean[user_id]
                               /\ \A r \in UserRows(out.rows, user_id) : r.expires_at > now]
          ELSE UNCHANGED <<next_id, issued, clean>>
    /\ UNCHANGED <<probe, users, cfg, now, sched, flight>>

NextConstruct ==
    \/ \E user_id \in UserIds, uuid_token \in FreshUuids, overflow_checks \in BOOLEAN :
          CreateSessionInBuild(user_id, uuid_token, overflow_checks)
    \/ \E token \in ValidateTokens, delete_ok \in BOOLEAN : ValidateSession(token, delete_ok)
    \/ \E token \in LogoutTokens : LogoutSession(token)
    \/ Tick

SpecConstruct == InitConstruct /\ [][NextConstruct]_vars

(***************************************************************************)
(* The background cleanup task next to the request path.  The task is      *)
(* spawned by main and loops: await the interval's tick, run               *)
(* cleanup_expired_sessions, on Err sleep 60 seconds.  The sweep takes a   *)
(* connection from the pool, runs the store's sweep and gives the          *)
(* connection back when it returns; taking the connection and the store's  *)
(* sweep can each fail (DatabaseError).  A request needs a connection of   *)
(* the same pool for as long as it runs.                                   *)
(***************************************************************************)
\* Connections of the pool (database::establish_connection_pool).
PoolSize == 2

\* sleep(StdDuration::from_secs(60))
BackoffSecs == 60

FreeConnections == PoolSize - sched.conn

\* The task once spawned: it awaits the first tick of its interval.
SchedulerSpawned ==
    [pc |-> "tick", conn |-> 0, sleep_secs |-> 0, outcome |-> "none"]

\* Mutant: the sweep keeps its connection after it returned.
ReleaseConnection_Leaks(conn) == conn

\* The connection of a call is given back when the call returns.
ReleaseConnection(conn) == conn - 1

\* Mutant: the task ends when a sweep fails.
AfterFailure_TaskEnds(conn) ==
    [pc |-> "off", conn |-> conn, sleep_secs |-> 0, outcome |-> "Err"]

\* The Err arm of the loop: log the error, then sleep 60 seconds.
AfterFailure(conn) ==
    [pc |-> "backoff", conn |-> conn, sleep_secs |-> BackoffSecs, outcome |-> "Err"]

\* The Ok arm of the loop: log, then back to the top of the loop.
AfterSuccess(conn) ==
    [pc |-> "tick", conn |-> conn, sleep_secs |-> 0, outcome |-> "Ok"]

TaskStep == [NoCall EXCEPT !.op = "cleanup_task"]

\* The SessionConfig of main with the limit scaled to 1 session per user.
SchedulerConfig == [MainConfig EXCEPT !.max_sessions_per_user = 1]

InitScheduler ==
    /\ probe = ProbeIdle
    /\ cfg = new_with_signing(SchedulerConfig, SessionSecret)
    /\ users = {1}
    /\ sessions = {}
    /\ next_id = 1
    /\ now = 0
    /\ issued = <<>>
    /\ last = NoCall
    /\ clean = [u \in users |-> TRUE]
    /\ sched = SchedulerSpawned
    /\ flight = NoFlights

\* cleanup_timer.tick().await completes.
TimerTick ==
    /\ sched.pc = "tick"
    /\ sched' = [sched EXCEPT !.pc = "cleanup"]
    /\ last' = TaskStep
    /\ UNCHANGED <<probe, users, cfg, sessions, next_id, now, issued, clean, flight>>

\* cleanup_expired_sessions starts: self.pool.get().  get_ok tells whether the
\* database hands out a connection.
CleanupBegin(get_ok) ==
    /\ sched.pc = "cleanup"
    /\ sched' = IF get_ok /\ FreeConnections >= 1
                THEN [sched EXCEPT !.pc = "sweep", !.conn = sched.conn + 1]
                ELSE AfterFailure(sched.conn)
    /\ last' = TaskStep
    /\ UNCHANGED <<probe, users, cfg, sessions, next_id, now, issued, clean, flight>>

\* Session::cleanup_and_get_stats runs and cleanup_expired_sessions returns.
\* store_ok tells whether the store carries out the sweep.
CleanupEnd(store_ok) ==
    /\ sched.pc = "sweep"
    /\ IF store_ok
       THEN LET out == cleanup_expired_sessions(sessions, now) IN
            /\ sessions' = out.rows
            /\ clean' = [u \in users |-> StillClean(u, sessions, out.rows)]
            /\ sched' = AfterSuccess(ReleaseConnection(sched.conn))
       ELSE /\ sched' = AfterFailure(ReleaseConnection(sched.conn))
            /\ UNCHANGED <<sessions, clean>>
    /\ last' = TaskStep
    /\ UNCHANGED <<probe, users, cfg, next_id, now, issued, flight>>

\* The 60 seconds of the sleep are over: the loop awaits the next tick.
BackoffElapsed ==
    /\ sched.pc = "backoff"
    /\ sched' = [sched EXCEPT !.pc = "tick", !.sleep_secs = 0]
    /\ last' = TaskStep
    /\ UNCHANGED <<probe, users, cfg, sessions, next_id, now, issued, clean, flight>>

\* The requests, each with a connection of the pool while it runs.
RequestCreate ==
    /\ FreeConnections >= 1
    /\ \E user_id \in UserIds, uuid_token \in FreshUuids : CreateSession(user_id, uuid_token)

RequestValidate ==
    /\ FreeConnections >= 1
    /\ \E token \in ValidateTokens, delete_ok \in BOOLEAN : ValidateSession(token, delete_ok)

RequestLogout ==
    /\ FreeConnections >= 1
    /\ \E token \in LogoutTokens : LogoutSession(token)

SchedulerStep ==
    \/ TimerTick
    \/ \E get_ok \in BOOLEAN : CleanupBegin(get_ok)
    \/ \E store_ok \in BOOLEAN : CleanupEnd(store_ok)
    \/ BackoffElapsed

NextScheduler ==
    \/ TimerTick
    \/ \E get_ok \in BOOLEAN : CleanupBegin(get_ok)
    \/ \E store_ok \in BOOLEAN : CleanupEnd(store_ok)
    \/ BackoffElapsed
    \/ RequestCreate
    \/ RequestValidate
    \/ RequestLogout
    \/ Tick

SpecScheduler == InitScheduler /\ [][NextScheduler]_vars

\* The runtime keeps polling the task: a timer that is due fires, and a call to
\* the database returns.
SpecSchedulerLive == SpecScheduler /\ WF_vars(SchedulerStep)

(***************************************************************************)
(* Calls running concurrently.  A call is a sequence of database           *)
(* statements issued on its own connection with no transaction around      *)
(* them, so the statements of two calls interleave.  Two tasks run calls;  *)
(* a task's record holds the locals of the call it is in.                  *)
(***************************************************************************)
Tasks == {1, 2}

IdleTask ==
    [pc |-> "idle", user_id |-> 0, count |-> 0, alone |-> TRUE,
     token |-> <<>>, session |-> None, now |-> 0, quiet |-> TRUE,
     in_window |-> FALSE]

InFlight == {k \in Tasks : flight[k].pc # "idle"}

\* Task k starts a call: it runs alone if no other call is in progress, and no
\* call that was in progress runs alone any longer.
Started(k, locals) ==
    [j \in Tasks |->
        IF j = k THEN [locals EXCEPT !.alone = (InFlight = {})]
        ELSE IF flight[j].pc # "idle" THEN [flight[j] EXCEPT !.alone = FALSE]
        ELSE flight[j]]

RaceCall(op, k, out) ==
    [op |-> op, user_id |-> flight[k].user_id, token |-> flight[k].token,
     result |-> out.result, session |-> out.session,
     alone |-> flight[k].alone, count |-> flight[k].count]

\* Mutant: the user's newest max_sessions_per_user sessions are kept.
EvictCounted_KeepsLimit(rows, user_id, current_session_count) ==
    IF current_session_count >= cfg.config.max_sessions_per_user
    THEN Session_delete_old_sessions_for_user(
             rows, user_id, cfg.config.max_sessions_per_user)
    ELSE rows

\* create_session, lines 92-95: the eviction, decided on the count read before.
EvictCounted(rows, user_id, current_session_count) ==
    IF current_session_count >= cfg.config.max_sessions_per_user
    THEN Session_delete_old_sessions_for_user(
             rows, user_id, UsizeWrappingSub(cfg.config.max_sessions_per_user, 1))
    ELSE rows

\* The configurations of the concurrent runs: main's, and main's with limits of
\* 1 and 2 sessions.
RaceConfigs == {[MainConfig EXCEPT !.max_sessions_per_user = m] : m \in {1, 2, 3}}

InitRace ==
    /\ probe = ProbeIdle
    /\ \E c \in RaceConfigs : cfg = new_with_signing(c, SessionSecret)
    /\ users = {1}
    /\ sessions = {}
    /\ next_id = 1
    /\ now = 0
    /\ issued = <<>>
    /\ last = NoCall
    /\ clean = [u \in users |-> TRUE]
    /\ sched = SchedulerOff
    /\ flight = [k \in Tasks |-> IdleTask]

\* create_session, lines 86-90: the user is looked up and the user's active
\* sessions are counted.
CreateCount(k, user_id) ==
    /\ flight[k].pc = "idle"
    /\ next_id + Cardinality(InFlight) <= MaxRaceCreates
    /\ IF User_find_by_id(user_id) = None
       THEN /\ last' = RaceCall("create_session", k, Err("NotFound", sessions))
            /\ UNCHANGED flight
       ELSE /\ flight' = Started(k, [IdleTask EXCEPT
                             !.pc = "evict",
                             !.user_id = user_id,
                             !.count = Session_count_active_sessions_for_user(
                                           sessions, now, user_id)])
            /\ last' = [NoCall EXCEPT !.op = "statement"]
    /\ UNCHANGED <<probe, users, cfg, sessions, next_id, now, issued, clean, sched>>

\* create_session, lines 92-95.
CreateEvict(k) ==
    /\ flight[k].pc = "evict"
    /\ sessions' = EvictCounted(sessions, flight[k].user_id, flight[k].count)
    /\ flight' = [flight EXCEPT ![k].pc = "insert"]
    /\ last' = [NoCall EXCEPT !.op = "statement"]
    /\ clean' = [u \in users |-> StillClean(u, sessions, sessions')]
    /\ UNCHANGED <<probe, users, cfg, next_id, now, issued, sched>>

\* create_session, lines 98-118: the insert and the return.
CreateInsert(k, uuid_token) ==
    /\ flight[k].pc = "insert"
    /\ LET expires_at == now + Hours(cfg.config.session_duration_hours)
           new_session == [user_id |-> flight[k].user_id,
                           session_token |-> uuid_token,
                           expires_at |-> expires_at]
           session == [id |-> next_id, user_id |-> flight[k].user_id,
                       session_token |-> ReturnedToken(uuid_token),
                       expires_at |-> expires_at]
       IN /\ sessions' = Session_create(sessions, next_id, new_session)
          /\ last' = RaceCall("create_session", k, Ok(sessions', session))
          /\ issued' = Append(issued, [user_id |-> flight[k].user_id,
                                       uuid |-> uuid_token,
                                       token |-> session.session_token,
                                       expires_at |-> expires_at,
                                       forged |-> create_signed_token_from_uuid(
                                                      OtherSecret, uuid_token)])
    /\ next_id' = next_id + 1
    /\ flight' = [flight EXCEPT ![k] = IdleTask]
    /\ clean' = [u \in users |-> StillClean(u, sessions, sessions')]
    /\ UNCHANGED <<probe, users, cfg, now, sched>>

NextRaceCreate ==
    \/ \E k \in Tasks, user_id \in UserIds : CreateCount(k, user_id)
    \/ \E k \in Tasks : CreateEvict(k)
    \/ \E k \in Tasks, uuid_token \in FreshUuids : CreateInsert(k, uuid_token)
    \/ Tick

SpecRaceCreate == InitRace /\ [][NextRaceCreate]_vars

(***************************************************************************)
(* validate_session running concurrently: find_by_token, the reading of    *)
(* the clock with the decision, and the delete or the update are separate  *)
(* steps of a task; logins, logouts and sweeps happen in between.          *)
(***************************************************************************)
\* The configurations of these runs: main's with a limit of 1 session, and the
\* same with a refresh threshold beyond the session lifetime.
RaceValidateConfigs ==
    {[SchedulerConfig EXCEPT !.refresh_threshold_minutes = m] : m \in {60, 80}}

InitRaceValidate ==
    /\ probe = ProbeIdle
    /\ \E c \in RaceValidateConfigs : cfg = new_with_signing(c, SessionSecret)
    /\ users = {1}
    /\ sessions = {}
    /\ next_id = 1
    /\ now = 0
    /\ issued = <<>>
    /\ last = NoCall
    /\ clean = [u \in users |-> TRUE]
    /\ sched = SchedulerOff
    /\ flight = [k \in Tasks |-> IdleTask]

\* The tokens the concurrent callers present: those create_session returned.
RaceTokens == {issued[i].token : i \in DOMAIN issued}

RowIds(rows) == {r.id : r \in rows}

\* The calls in progress after a login, a logout or a sweep left rows_after: a
\* call whose row went away was not left in peace.
Disturbed(rows_after) ==
    [j \in Tasks |->
        IF /\ flight[j].pc # "idle"
           /\ flight[j].session[1].id \notin RowIds(rows_after)
        THEN [flight[j] EXCEPT !.quiet = FALSE]
        ELSE flight[j]]

\* What a step of validate_session leaves in `last`.
ValidateStep(k, step, token, out) ==
    [op |-> "validate_session", user_id |-> 0, token |-> token,
     result |-> out.result, session |-> out.session,
     alone |-> flight[k].alone, count |-> 0, step |-> step]

\* The session's row as stored is unexpired and has less than
\* refresh_threshold_minutes left.
InWindow(id) ==
    \E r \in sessions :
        /\ r.id = id
        /\ r.expires_at > now
        /\ r.expires_at - now < Minutes(cfg.config.refresh_threshold_minutes)

\* validate_session, lines 125-142: the lookup token and find_by_token.
ValidateFind(k, token) ==
    /\ flight[k].pc = "idle"
    /\ LET lookup_token == LookupToken(token)
           found == IF lookup_token = None THEN None
                    ELSE Session_find_by_token(sessions, lookup_token[1])
       IN IF found = None
          THEN /\ last' = ValidateStep(k, "find", token, Err("InvalidToken", sessions))
               /\ UNCHANGED flight
          ELSE /\ flight' = Started(k, [IdleTask EXCEPT !.pc = "check",
                                                        !.token = token,
                                                        !.session = found])
               /\ last' = [NoCall EXCEPT !.op = "statement"]
    /\ UNCHANGED <<probe, users, cfg, sessions, next_id, now, issued, clean, sched>>

\* validate_session, lines 145-161: the clock is read and the row found is
\* judged: expired, to be refreshed, or returned as it is.
ValidateCheck(k) ==
    /\ flight[k].pc = "check"
    /\ LET session == flight[k].session[1] IN
       IF session.expires_at <= now
       THEN /\ flight' = [flight EXCEPT ![k].pc = "delete", ![k].now = now,
                                        ![k].in_window = InWindow(session.id)]
            /\ last' = [NoCall EXCEPT !.op = "statement"]
       ELSE IF /\ cfg.config.enable_session_refresh
               /\ session.expires_at - now < Minutes(cfg.config.refresh_threshold_minutes)
            THEN /\ flight' = [flight EXCEPT ![k].pc = "refresh", ![k].now = now,
                                             ![k].in_window = InWindow(session.id)]
                 /\ last' = [NoCall EXCEPT !.op = "statement"]
            ELSE /\ flight' = [flight EXCEPT ![k] = IdleTask]
                 /\ last' = ValidateStep(k, "check", flight[k].token, Ok(sessions, session))
    /\ UNCHANGED <<probe, users, cfg, sessions, next_id, now, issued, clean, sched>>

\* validate_session, lines 148-151: the expired row is deleted, the delete's
\* error discarded.
ValidateDelete(k, delete_ok) ==
    /\ flight[k].pc = "delete"
    /\ sessions' = DeleteIgnoringError(sessions, flight[k].session[1].id, delete_ok)
    /\ flight' = [flight EXCEPT ![k] = IdleTask]
    /\ last' = ValidateStep(k, "delete", flight[k].token, Err("ExpiredToken", sessions'))
    /\ clean' = [u \in users |-> StillClean(u, sessions, sessions')]
    /\ UNCHANGED <<probe, users, cfg, next_id, now, issued, sched>>

\* Mutant: the refresh stores the session as the call holds it.
ValidateRefresh_StoresCopy(k, kind) ==
    /\ flight[k].pc = "refresh"
    /\ LET session == flight[k].session[1]
           new_expires_at == flight[k].now + Hours(cfg.config.session_duration_hours)
           refreshed == [session EXCEPT !.expires_at = new_expires_at]
       IN /\ sessions' = Session_delete(sessions, session.id) \cup {refreshed}
          /\ last' = ValidateStep(k, "refresh", flight[k].token, Ok(sessions', refreshed))
    /\ flight' = [flight EXCEPT ![k] = IdleTask]
    /\ clean' = [u \in users |-> StillClean(u, sessions, sessions')]
    /\ UNCHANGED <<probe, users, cfg, next_id, now, issued, sched>>

\* validate_session, lines 162-163: refresh_expiration(id, now + lifetime), an
\* update of the row with that id; without such a row the statement fails and
\* the error, of kind `kind`, is returned.
ValidateRefresh(k, kind) ==
    /\ flight[k].pc = "refresh"
    /\ LET session == flight[k].session[1]
           new_expires_at == flight[k].now + Hours(cfg.config.session_duration_hours)
       IN IF session.id \in RowIds(sessions)
          THEN /\ sessions' = Session_refresh_expiration(sessions, session.id, new_expires_at)
               /\ last' = ValidateStep(k, "refresh", flight[k].token,
                              Ok(sessions', CHOOSE r \in sessions' : r.id = session.id))
          ELSE /\ sessions' = sessions
               /\ last' = ValidateStep(k, "refresh", flight[k].token, Err(kind, sessions))
    /\ flight' = [flight EXCEPT ![k] = IdleTask]
    /\ clean' = [u \in users |-> StillClean(u, sessions, sessions')]
    /\ UNCHANGED <<probe, users, cfg, next_id, now, issued, sched>>

\* A login while calls are in progress: create_session(user_id).
LoginDuring(user_id, uuid_token) ==
    /\ next_id <= cfg.config.max_sessions_per_user + ExtraCreates
    /\ LET out == create_session(sessions, now, next_id, user_id, uuid_token) IN
       /\ sessions' = out.rows
       /\ last' = Call("create_session", user_id, <<>>, out)
       /\ flight' = Disturbed(out.rows)
       /\ clean' = [u \in users |-> StillClean(u, sessions, out.rows)]
       /\ IF out.result = "Ok"
          THEN /\ next_id' = next_id + 1
               /\ issued' = Append(issued, [user_id |-> user_id,
                                            uuid |-> uuid_token,
                                            token |-> out.session[1].session_token,
                                            expires_at |-> out.session[1].expires_at,
                                            forged |-> create_signed_token_from_uuid(
                                                           OtherSecret, uuid_token)])
          ELSE UNCHANGED <<next_id, issued>>
    /\ UNCHANGED <<probe, users, cfg, now, sched>>

\* A logout while calls are in progress: logout_session(token).
LogoutDuring(token) ==
    /\ LET out == logout_session(sessions, token) IN
       /\ sessions' = out.rows
       /\ last' = Call("logout_session", 0, token, out)
       /\ flight' = Disturbed(out.rows)
       /\ clean' = [u \in users |-> StillClean(u, sessions, out.rows)]
    /\ UNCHANGED <<probe, users, cfg, next_id, now, issued, sched>>

\* logout_all_user_sessions(user_id) while calls are in progress.
LogoutAllDuring(user_id) ==
    /\ LET out == logout_all_user_sessions(sessions, user_id) IN
       /\ sessions' = out.rows
       /\ last' = AdminCall("logout_all_user_sessions", user_id, out)
       /\ flight' = Disturbed(out.rows)
       /\ clean' = [u \in users |-> StillClean(u, sessions, out.rows)]
    /\ UNCHANGED <<probe, users, cfg, next_id, now, issued, sched>>

\* The sweep while calls are in progress: cleanup_expired_sessions().
SweepDuring ==
    /\ LET out == cleanup_expired_sessions(sessions, now) IN
       /\ sessions' = out.rows
       /\ last' = AdminCall("cleanup_expired_sessions", 0, out)
       /\ flight' = Disturbed(out.rows)
       /\ clean' = [u \in users |-> StillClean(u, sessions, out.rows)]
    /\ UNCHANGED <<probe, users, cfg, next_id, now, issued, sched>>

NextRaceValidate ==
    \/ \E k \in Tasks, token \in RaceTokens \cup {UnknownToken} : ValidateFind(k, token)
    \/ \E k \in Tasks : ValidateCheck(k)
    \/ \E k \in Tasks, delete_ok \in BOOLEAN : ValidateDelete(k, delete_ok)
    \/ \E k \in Tasks, kind \in {"NotFound", "DatabaseError"} : ValidateRefresh(k, kind)
    \/ \E user_id \in users, uuid_token \in FreshUuids : LoginDuring(user_id, uuid_token)
    \/ \E token \in {issued[i].uuid : i \in DOMAIN issued} : LogoutDuring(token)
    \/ \E user_id \in users : LogoutAllDuring(user_id)
    \/ SweepDuring
    \/ Tick

SpecRaceValidate == InitRaceValidate /\ [][NextRaceValidate]_vars

(***************************************************************************)
(* The SessionSigner on its own: two signers (secrets s1 and s2), an       *)
(* identifier and a token string are drawn at the start; s1 signs, s2      *)
(* verifies.                                                               *)
(***************************************************************************)
InitSigner ==
    /\ probe \in [s1 : Secrets, s2 : Secrets, id : Ids, token : ArbitraryStrings,
                  origin : {"arbitrary"}, sig : {None}, op : {"init"},
                  verified : {None}, looks_signed : {FALSE}]
    /\ users = {}
    /\ cfg = new_with_signing(MainConfig, SessionSecret)
    /\ sessions = {}
    /\ next_id = 1
    /\ now = 0
    /\ issued = <<>>
    /\ last = NoCall
    /\ clean = <<>>
    /\ sched = SchedulerOff
    /\ flight = NoFlights

\* signer1.create_signed_token() produces the token under test.
SignerCreate ==
    /\ probe' = [probe EXCEPT
                    !.token = create_signed_token(probe.s1, probe.id),
                    !.origin = "signed",
                    !.sig = Some(sign_token(probe.s1, probe.id)),
                    !.op = "create_signed_token",
                    !.verified = None,
                    !.looks_signed = FALSE]
    /\ UNCHANGED <<users, cfg, sessions, next_id, now, issued, last, clean, sched, flight>>

\* Somebody puts a token together from the identifier and a signature part.
SignerPresent(sig) ==
    /\ probe' = [probe EXCEPT
                    !.token = probe.id \o <<".">> \o sig,
                    !.origin = "presented",
                    !.sig = Some(sig),
                    !.op = "present",
                    !.verified = None,
                    !.looks_signed = FALSE]
    /\ UNCHANGED <<users, cfg, sessions, next_id, now, issued, last, clean, sched, flight>>

\* signer2.verify_signed_token(token)
SignerVerify ==
    /\ probe' = [probe EXCEPT
                    !.op = "verify_signed_token",
                    !.verified = verify_signed_token(probe.s2, probe.token),
                    !.looks_signed = FALSE]
    /\ UNCHANGED <<users, cfg, sessions, next_id, now, issued, last, clean, sched, flight>>

\* SessionSigner::is_signed_token(token)
SignerIsSigned ==
    /\ probe' = [probe EXCEPT
                    !.op = "is_signed_token",
                    !.verified = None,
                    !.looks_signed = is_signed_token(probe.token)]
    /\ UNCHANGED <<users, cfg, sessions, next_id, now, issued, last, clean, sched, flight>>

NextSigner ==
    \/ SignerCreate
    \/ \E sig \in PresentedSignatures(probe.id, probe.s2) : SignerPresent(sig)
    \/ SignerVerify
    \/ SignerIsSigned

SpecSigner == InitSigner /\ [][NextSigner]_vars

(***************************************************************************)
(* Properties of the SessionSigner, under SpecSigner.                      *)
(***************************************************************************)

\* C8: a token made by create_signed_token with a secret verifies under the same
\* secret, and verify_signed_token returns the identifier it was made from.
C8_RoundTrip ==
    (/\ probe.op = "verify_signed_token"
     /\ probe.origin = "signed"
     /\ probe.s1 = probe.s2)
        => probe.verified = Some(probe.id)

C8_Witness ==
    /\ probe.op = "verify_signed_token"
    /\ probe.origin = "signed"
    /\ probe.s1 = probe.s2
    /\ Len(probe.id) = MaxIdLen
    /\ probe.verified = Some(probe.id)

\* C9, as claimed: a token signed with s1 is rejected by a signer with any other
\* secret s2.
C9_AnyOtherSecretRejects ==
    (/\ probe.op = "verify_signed_token"
     /\ probe.origin = "signed"
     /\ probe.s1 # probe.s2)
        => probe.verified = None

\* C9, amended: a token signed with s1 is rejected by a signer with secret s2
\* whenever the two secrets give different HMAC key blocks (they give the same
\* one when they differ only in trailing NUL bytes); and a token whose signature
\* part is not the signature s2 expects for its identifier part is rejected.
C9_OtherKeyBlockRejects ==
    /\ (/\ probe.op = "verify_signed_token"
        /\ probe.origin = "signed"
        /\ HmacKeyBlock(probe.s1) # HmacKeyBlock(probe.s2))
           => probe.verified = None
    /\ (/\ probe.op = "verify_signed_token"
        /\ probe.origin = "presented"
        /\ probe.sig[1] # sign_token(probe.s2, probe.id))
           => probe.verified = None

C9_Witness ==
    /\ probe.op = "verify_signed_token"
    /\ probe.origin = "signed"
    /\ HmacKeyBlock(probe.s1) # HmacKeyBlock(probe.s2)
    /\ Len(probe.s1) = Len(probe.s2)
    /\ probe.verified = None

\* C10: for a string that does not contain exactly one '.', verify_signed_token
\* returns None and is_signed_token returns false.
C10_MalformedRejected ==
    /\ (probe.op = "verify_signed_token" /\ DotCount(probe.token) # 1)
           => probe.verified = None
    /\ (probe.op = "is_signed_token" /\ DotCount(probe.token) # 1)
           => probe.looks_signed = FALSE

C10_Witness ==
    /\ probe.op = "is_signed_token"
    /\ DotCount(probe.token) = 2
    /\ probe.looks_signed = FALSE

(***************************************************************************)
(* Properties of the SessionManager, under Spec.                           *)
(***************************************************************************)
\* What create_session returned to user u, in call order.
IssuedTo(u) == SelectSeq(issued, LAMBDA e : e.user_id = u)

\* The user's sessions that have not expired.
ActiveRows(u) == {r \in UserRows(sessions, u) : r.expires_at > now}

\* The rows a presented token stands for: those of the sessions it was issued
\* for, as returned by create_session or as the bare identifier.
TokenRows(token) ==
    {r \in sessions :
        \E i \in DOMAIN issued :
            /\ issued[i].uuid = r.session_token
            /\ token \in {issued[i].token, issued[i].uuid}}

\* Only create_session has touched u's sessions, max_sessions_per_user + 1 times.
OneOverLimit(u) ==
    /\ clean[u]
    /\ Len(IssuedTo(u)) = cfg.config.max_sessions_per_user + 1

\* C1: after max_sessions_per_user + 1 sequential create_session calls for a user,
\* starting from no sessions and with none expiring, exactly max_sessions_per_user
\* sessions of the user are active and the most recently created one is among them.
C1_SlidingWindow ==
    \A u \in users :
        OneOverLimit(u) =>
            /\ Cardinality(ActiveRows(u)) = cfg.config.max_sessions_per_user
            /\ \E r \in ActiveRows(u) :
                  r.session_token = IssuedTo(u)[Len(IssuedTo(u))].uuid

C1_Witness ==
    \E u \in users :
        /\ OneOverLimit(u)
        /\ cfg.config.max_sessions_per_user = 3
        /\ last.op = "create_session"
        /\ last.result = "Ok"
        /\ Cardinality(ActiveRows(u)) = 3

\* C2: with a limit of 3 and signing enabled, after four sequential create_session
\* calls for a user the first token returned fails validate_session with
\* InvalidToken, the fourth validates, and 3 sessions are active.
C2_FourthLoginEvictsFirst ==
    \A u \in users :
        (/\ cfg.config.max_sessions_per_user = 3
         /\ cfg.signer # None
         /\ OneOverLimit(u))
            => /\ validate_session(sessions, now, IssuedTo(u)[1].token, TRUE).result
                   = "InvalidToken"
               /\ validate_session(sessions, now, IssuedTo(u)[4].token, TRUE).result = "Ok"
               /\ Cardinality(ActiveRows(u)) = 3

C2_Witness ==
    \E u \in users :
        /\ cfg.config.max_sessions_per_user = 3
        /\ cfg.signer # None
        /\ OneOverLimit(u)
        /\ last.op = "validate_session"
        /\ last.token = IssuedTo(u)[1].token
        /\ last.result = "InvalidToken"

\* C3: validate_session on a token whose session has expired (expiry at or before
\* now) returns ExpiredToken and has deleted the row; the next validate_session
\* with that token returns InvalidToken.
C3_ExpiredIsPurged ==
    [][last'.op = "validate_session" =>
          /\ \A r \in TokenRows(last'.token) :
                r.expires_at <= now =>
                    /\ last'.result = "ExpiredToken"
                    /\ \A q \in sessions' : q.id # r.id
          /\ (/\ last.op = "validate_session"
              /\ last.result = "ExpiredToken"
              /\ last'.token = last.token) => last'.result = "InvalidToken"]_vars

\* C4, as claimed: with refresh enabled, validate_session on an unexpired session
\* with less than refresh_threshold_minutes left returns a session whose expiry is
\* strictly later than before, whatever the configuration; with at least the
\* threshold left, the returned and the stored expiry are unchanged.
C4_RefreshAlwaysExtends ==
    [][(last'.op = "validate_session" /\ cfg.config.enable_session_refresh) =>
          \A r \in TokenRows(last'.token) :
              r.expires_at > now =>
                  IF r.expires_at - now < cfg.config.refresh_threshold_minutes
                  THEN /\ last'.result = "Ok"
                       /\ last'.session[1].expires_at > r.expires_at
                  ELSE /\ last'.result = "Ok"
                       /\ last'.session[1].expires_at = r.expires_at
                       /\ \E q \in sessions' :
                             q.id = r.id /\ q.expires_at = r.expires_at]_vars

\* C4, amended: the refreshed expiry is strictly later provided the threshold
\* is at most the session lifetime (refresh_threshold_minutes <=
\* 60 * session_duration_hours).
C4_RefreshExtendsWithinLifetime ==
    [][(last'.op = "validate_session" /\ cfg.config.enable_session_refresh) =>
          \A r \in TokenRows(last'.token) :
              r.expires_at > now =>
                  IF r.expires_at - now < cfg.config.refresh_threshold_minutes
                  THEN cfg.config.refresh_threshold_minutes
                           <= 60 * cfg.config.session_duration_hours
                       => /\ last'.result = "Ok"
                          /\ last'.session[1].expires_at > r.expires_at
                  ELSE /\ last'.result = "Ok"
                       /\ last'.session[1].expires_at = r.expires_at
                       /\ \E q \in sessions' :
                             q.id = r.id /\ q.expires_at = r.expires_at]_vars

C4_Witness ==
    /\ last.op = "validate_session"
    /\ last.result = "Ok"
    /\ cfg.config.enable_session_refresh
    /\ cfg.config.refresh_threshold_minutes <= 60 * cfg.config.session_duration_hours
    /\ \E i \in DOMAIN issued :
          /\ issued[i].token = last.token
          /\ last.session[1].expires_at > issued[i].expires_at

\* C5: a session whose expiry is at or before now is never refreshed by
\* validate_session: it is not returned as valid and its expiry is not extended.
C5_ExpiredNeverRefreshed ==
    [][last'.op = "validate_session" =>
          \A r \in TokenRows(last'.token) :
              r.expires_at <= now =>
                  /\ last'.result # "Ok"
                  /\ \A q \in sessions' : q.id = r.id => q.expires_at <= r.expires_at]_vars

C5_Witness ==
    /\ last.op = "validate_session"
    /\ last.result = "ExpiredToken"
    /\ cfg.config.enable_session_refresh
    /\ cfg.config.session_duration_hours > 0

\* C6: with signing enabled, validate_session accepts only tokens that carry the
\* signature made with the signing secret.
C6_OnlySignedTokensValidate ==
    (/\ cfg.signer # None
     /\ last.op = "validate_session"
     /\ last.result = "Ok")
        => verify_signed_token(cfg.signer[1], last.token) # None

\* C7: with signing enabled, logout_session with the signed token create_session
\* returned, while the session's row exists, succeeds and deletes that row.
C7_LogoutResolvesSignedToken ==
    [][(last'.op = "logout_session" /\ cfg.signer # None) =>
          \A i \in DOMAIN issued :
              (/\ issued[i].token = last'.token
               /\ \E r \in sessions : r.session_token = issued[i].uuid)
                  => /\ last'.result = "Ok"
                     /\ \A r \in sessions' : r.session_token # issued[i].uuid]_vars

\* The row of the i-th session issued is stored and has not expired.
Live(i) ==
    \E r \in sessions : r.session_token = issued[i].uuid /\ r.expires_at > now

\* C11: create_session for a user id with no users row fails with NotFound and
\* leaves the sessions table as it was: nothing inserted, nothing evicted.
C11_UnknownUserPersistsNothing ==
    [][(last'.op = "create_session" /\ last'.user_id \notin users) =>
          /\ last'.result = "NotFound"
          /\ sessions' = sessions]_vars

C11_Witness ==
    /\ last.op = "create_session"
    /\ last.user_id \notin users
    /\ last.result = "NotFound"
    /\ sessions # {}

\* C12: logout_session with a token that matches no row, neither as given nor
\* as the identifier it was issued for, returns NotFound and leaves every row as
\* it was.
C12_UnknownTokenLogout ==
    [][(/\ last'.op = "logout_session"
        /\ \A r \in sessions : r.session_token # last'.token
        /\ TokenRows(last'.token) = {}) =>
          /\ last'.result = "NotFound"
          /\ sessions' = sessions]_vars

C12_Witness ==
    /\ last.op = "logout_session"
    /\ last.token = UnknownToken
    /\ last.result = "NotFound"
    /\ sessions # {}

\* C14: without a signer, the token create_session returns is the identifier
\* stored in the row, has no '.', is_signed_token is false for it, and while the
\* session is live validate_session looks the token up as it is and succeeds.
C14_UnsignedTokenIsIdentifier ==
    cfg.signer = None =>
        \A i \in DOMAIN issued :
            /\ issued[i].token = issued[i].uuid
            /\ ~Contains(issued[i].token, ".")
            /\ ~is_signed_token(issued[i].token)
            /\ LookupToken(issued[i].token) = Some(issued[i].token)
            /\ Live(i) =>
                  validate_session(sessions, now, issued[i].token, TRUE).result = "Ok"
            /\ (last.op = "create_session" /\ last.result = "Ok" /\ i = Len(issued)) =>
                  /\ last.session[1].session_token = issued[i].token
                  /\ \E r \in sessions : r.session_token = issued[i].token

C14_Witness ==
    /\ cfg.signer = None
    /\ last.op = "validate_session"
    /\ last.result = "Ok"
    /\ \E i \in DOMAIN issued : last.token = issued[i].token /\ Live(i)

\* C15: every row stores an identifier that was generated for it, without a
\* signature; no two rows store the same identifier; with a signer the token
\* create_session returns is identifier, '.', sign_token(identifier), which is
\* not what the row stores.
C15_RowsStoreIdentifierOnly ==
    /\ \A r \in sessions :
          /\ \E i \in DOMAIN issued : r.session_token = issued[i].uuid
          /\ ~Contains(r.session_token, ".")
    /\ \A r, q \in sessions : r.session_token = q.session_token => r = q
    /\ cfg.signer # None =>
          \A i \in DOMAIN issued :
              /\ issued[i].token
                     = issued[i].uuid \o <<".">> \o sign_token(cfg.signer[1], issued[i].uuid)
              /\ \A r \in sessions : r.session_token # issued[i].token

C15_Witness ==
    /\ cfg.signer # None
    /\ Cardinality(sessions) >= 2
    /\ last.op = "create_session"
    /\ last.result = "Ok"
    /\ Contains(last.session[1].session_token, ".")

\* C16: with a signer, validate_session accepts a live session's token both as
\* returned by create_session (signed) and as the bare identifier.
C16_BothWireFormsAccepted ==
    cfg.signer # None =>
        \A i \in DOMAIN issued :
            Live(i) =>
                /\ validate_session(sessions, now, issued[i].token, TRUE).result = "Ok"
                /\ validate_session(sessions, now, issued[i].uuid, TRUE).result = "Ok"
                /\ LookupToken(issued[i].uuid) = Some(issued[i].uuid)

C16_Witness ==
    /\ cfg.signer # None
    /\ last.op = "validate_session"
    /\ last.result = "Ok"
    /\ \E i \in DOMAIN issued : last.token = issued[i].uuid /\ Live(i)

\* C17: with a signer, validate_session of a token that looks signed but whose
\* signature does not verify returns InvalidToken and leaves every row as it
\* was, also when the identifier part names a live session.
C17_BadSignatureTouchesNothing ==
    [][(/\ last'.op = "validate_session"
        /\ cfg.signer # None
        /\ is_signed_token(last'.token)
        /\ verify_signed_token(cfg.signer[1], last'.token) = None) =>
          /\ last'.result = "InvalidToken"
          /\ sessions' = sessions]_vars

C17_Witness ==
    /\ last.op = "validate_session"
    /\ cfg.signer # None
    /\ last.result = "InvalidToken"
    /\ \E i \in DOMAIN issued : last.token = issued[i].forged /\ Live(i)

(***************************************************************************)
(* Properties of the administrative operations, under SpecAdmin.           *)
(***************************************************************************)
\* Both forms of the i-th issued token are refused as InvalidToken, given the
\* rows and the clock.
BothFormsInvalid(rows, t, i) ==
    /\ validate_session(rows, t, issued[i].token, TRUE).result = "InvalidToken"
    /\ validate_session(rows, t, issued[i].uuid, TRUE).result = "InvalidToken"

\* C13: once logout_all_user_sessions(u) has returned, validate_session of every
\* token issued to u before, signed or bare, returns InvalidToken; a session whose
\* row is gone never gets a row again, so this lasts, and sessions u creates
\* later have other tokens.
C13_LogoutAllInvalidatesTokens ==
    [][/\ last'.op = "logout_all_user_sessions" =>
             /\ \A i \in DOMAIN issued :
                   issued[i].user_id = last'.user_id => BothFormsInvalid(sessions', now', i)
             /\ last'.result = "Ok"
             /\ last'.value = Cardinality(UserRows(sessions, last'.user_id))
       /\ \A i \in DOMAIN issued :
             (\A r \in sessions : r.session_token # issued[i].uuid)
                 => /\ \A r \in sessions' : r.session_token # issued[i].uuid
                    /\ BothFormsInvalid(sessions', now', i)]_vars

C13_Witness ==
    /\ last.op = "logout_all_user_sessions"
    /\ last.value >= 1
    /\ cfg.signer # None
    /\ sessions # {}

\* C18: force_expire_user_sessions(u) sets the expiry of each of u's rows to now,
\* deletes no row, leaves other users' rows alone and returns the number of rows
\* updated; the validate_session of one of those tokens that follows returns
\* ExpiredToken and has removed the row.
C18_ForceExpireThenPurged ==
    [][/\ last'.op = "force_expire_user_sessions" =>
             /\ last'.result = "Ok"
             /\ last'.value = Cardinality(UserRows(sessions, last'.user_id))
             /\ sessions' = {IF r.user_id = last'.user_id
                             THEN [r EXCEPT !.expires_at = now] ELSE r : r \in sessions}
       /\ (last.op = "force_expire_user_sessions" /\ last'.op = "validate_session") =>
             \A r \in TokenRows(last'.token) :
                 r.user_id = last.user_id =>
                     /\ last'.result = "ExpiredToken"
                     /\ \A q \in sessions' : q.id # r.id]_vars

\* C19: cleanup_expired_sessions deletes exactly the rows whose expiry is at or
\* before now, and reports the number of rows before the sweep, the number left
\* (all active) and the number deleted.
C19_CleanupSweepsExpired ==
    [][last'.op = "cleanup_expired_sessions" =>
          /\ last'.result = "Ok"
          /\ sessions' = {r \in sessions : r.expires_at > now}
          /\ last'.value.total_sessions = Cardinality(sessions)
          /\ last'.value.active_sessions = Cardinality(sessions')
          /\ last'.value.expired_cleaned = Cardinality(sessions \ sessions')]_vars

C19_Witness ==
    /\ last.op = "cleanup_expired_sessions"
    /\ last.value.expired_cleaned >= 1
    /\ last.value.active_sessions >= 1
    /\ last.value.total_sessions = last.value.expired_cleaned + last.value.active_sessions

\* C20: get_session_statistics changes no row; it reports the number of rows as
\* total, the number of rows with expiry after now as active, and 0 cleaned.
C20_StatisticsReadOnly ==
    [][last'.op = "get_session_statistics" =>
          /\ last'.result = "Ok"
          /\ sessions' = sessions
          /\ last'.value.total_sessions = Cardinality(sessions)
          /\ last'.value.active_sessions
                 = Cardinality({r \in sessions : r.expires_at > now})
          /\ last'.value.expired_cleaned = 0]_vars

C20_Witness ==
    /\ last.op = "get_session_statistics"
    /\ last.value.total_sessions >= 2
    /\ last.value.active_sessions >= 1
    /\ last.value.active_sessions < last.value.total_sessions
    /\ \E r \in sessions : r.expires_at = now

\* C21: logout_all_user_sessions(u) deletes u's rows and no others, returns the
\* number of rows deleted, and returns Ok with 0 when u has no rows.
C21_LogoutAllDeletesOwnRows ==
    [][last'.op = "logout_all_user_sessions" =>
          /\ last'.result = "Ok"
          /\ sessions' = {r \in sessions : r.user_id # last'.user_id}
          /\ last'.value = Cardinality(sessions \ sessions')
          /\ UserRows(sessions, last'.user_id) = {} => last'.value = 0]_vars

C21_Witness ==
    /\ last.op = "logout_all_user_sessions"
    /\ last.result = "Ok"
    /\ last.value = 0
    /\ sessions # {}

\* Rows of users other than u.
OthersRows(rows, u) == {r \in rows : r.user_id # u}

C29_TokenValidatesToOwner ==
    (last.op = "validate_session" /\ last.result = "Ok") =>
        \A i \in DOMAIN issued :
            last.token \in {issued[i].token, issued[i].uuid} =>
                last.session[1].user_id = issued[i].user_id

C29_Witness ==
    /\ last.op = "validate_session"
    /\ last.result = "Ok"
    /\ \E i \in DOMAIN issued :
          /\ last.token = issued[i].token
          /\ last.session[1].user_id = issued[i].user_id
          /\ \E r \in sessions : r.user_id # issued[i].user_id

(***************************************************************************)
(* Properties of construction and of the build, under SpecConstruct.       *)
(***************************************************************************)
\* C22: however the manager was constructed, it holds a signer exactly when its
\* configuration has enable_token_signing set.
C22_SignerIffEnabled ==
    (cfg.signer # None) <=> cfg.config.enable_token_signing

\* C27: for every max_sessions_per_user, 0 included, create_session for an
\* existing user returns a session or an error kind; it never panics.
C27_CreateAlwaysReturns ==
    (last.op = "create_session" /\ last.user_id \in users) =>
        last.result \in {"Ok", "NotFound", "DatabaseError", "InternalError"}

(***************************************************************************)
(* Properties of the background cleanup task.                              *)
(***************************************************************************)
\* C23: the cleanup task never ends on its own: whenever it is past a cleanup
\* (waiting for the tick or backing off) a further cleanup invocation follows;
\* a failed cleanup leads to the 60-second sleep, and the sleep leads back to
\* waiting for the tick.
C23_SchedulerKeepsRunning ==
    /\ [][/\ sched'.pc # "off"
          /\ (sched.pc \in {"cleanup", "sweep"} /\ sched'.pc \notin {"cleanup", "sweep"}
                  /\ sched'.outcome = "Err")
                => (sched'.pc = "backoff" /\ sched'.sleep_secs = BackoffSecs)
          /\ (sched.pc = "backoff" /\ sched'.pc # "backoff") => sched'.pc = "tick"]_vars
    /\ (sched.pc \in {"tick", "backoff"}) ~> (sched.pc = "cleanup")

\* A cleanup failed, the task slept, and a further cleanup is being invoked.
C23_Witness ==
    /\ sched.pc = "cleanup"
    /\ sched.outcome = "Err"

C24_RaceOvershootsByOne ==
    [][/\ \A u \in users :
             Cardinality(ActiveRows(u))' <= cfg.config.max_sessions_per_user + 1
       /\ \A k \in Tasks :
             (flight[k].pc = "insert" /\ flight'[k].pc = "idle" /\ flight[k].alone) =>
                 Cardinality(ActiveRows(flight[k].user_id))'
                     <= cfg.config.max_sessions_per_user]_vars

\* Two concurrent logins left the user one over the limit, and the login that
\* ran alone afterwards brought the user back to the limit.
C24_Witness ==
    /\ last.op = "create_session"
    /\ last.result = "Ok"
    /\ last.alone
    /\ last.count = cfg.config.max_sessions_per_user + 1
    /\ Cardinality(ActiveRows(last.user_id)) = cfg.config.max_sessions_per_user

\* Task k completes a validate_session that ran while another call was in
\* progress; when it read the clock, the session as stored was unexpired and
\* inside the refresh window; no login, logout or sweep removed the row meanwhile.
ValidateRaced(k) ==
    /\ flight[k].pc # "idle"
    /\ flight'[k].pc = "idle"
    /\ ~flight[k].alone
    /\ flight[k].quiet
    /\ flight[k].in_window
    /\ cfg.config.enable_session_refresh

\* The row of the session task k validates, after the step.
RowAfter(k) == {r \in sessions' : r.id = flight[k].session[1].id}

\* C25: concurrent validate_session calls on an unexpired token inside the
\* refresh window all succeed, exactly one record of the session remains, and
\* its expiry is later than the expiry the call found.
C25_ConcurrentValidatesExtend ==
    [][\A k \in Tasks :
          ValidateRaced(k) =>
              /\ last'.result = "Ok"
              /\ Cardinality(RowAfter(k)) = 1
              /\ \A r \in RowAfter(k) :
                    r.expires_at > flight[k].session[1].expires_at]_vars

\* The session issued as issued[i] has no row.
Deleted(i) == ~\E r \in sessions : r.session_token = issued[i].uuid

\* C28: a session's row, once removed, never comes back, whatever
\* validate_session call is in progress on it; and a validate_session that starts
\* when the row is gone finds nothing and returns InvalidToken.
C28_DeletedStaysDeleted ==
    [][/\ \A id \in 1..(next_id - 1) :
             id \notin RowIds(sessions) => id \notin RowIds(sessions')
       /\ \A i \in DOMAIN issued :
             Deleted(i) =>
                 /\ ~\E r \in sessions' : r.session_token = issued[i].uuid
                 /\ \A k \in Tasks :
                       (flight[k].pc = "idle" /\ flight'[k].pc = "check") =>
                           flight'[k].token \notin {issued[i].token, issued[i].uuid}
                 /\ (/\ last'.op = "validate_session"
                     /\ last'.step = "find"
                     /\ last'.token \in {issued[i].token, issued[i].uuid}) =>
                        last'.result = "InvalidToken"]_vars

\* The refresh of a call in progress met a row that had been removed meanwhile:
\* the call returned an error and the row stayed away.
C28_Witness ==
    /\ last.op = "validate_session"
    /\ last.step = "refresh"
    /\ last.result \in {"NotFound", "DatabaseError"}
    /\ \E i \in DOMAIN issued :
          /\ Deleted(i)
          /\ last.token = issued[i].token

====
